---- MODULE Spec2Model ----
(***************************************************************************)
(* Manifold adapters of openwebui-pipelines: the Anthropic, Fireworks and  *)
(* OpenRouter pipelines.  One request at a time is followed from the       *)
(* host's call of pipe to the end of the returned value's life; the        *)
(* OpenRouter model catalog is followed over a sequence of calls.          *)
(*                                                                         *)
(* Conventions.  An optional value (a dict key that may be missing) is a   *)
(* sequence of length 0 or 1.  A dict is a function from its keys.  Text   *)
(* is a TLA+ string.  Python's None is the string "None" (PyNone).         *)
(***************************************************************************)
EXTENDS Integers, Sequences, FiniteSets, TLC

VARIABLES
    adapter,             \* the adapter the host calls: "anthropic", "fireworks", "openrouter"
    pc,                  \* where the request is: see PcValues
    THINKING_BUDGET,     \* Anthropic Valves.THINKING_BUDGET
    request,             \* the arguments of the pipe call (host input)
    payload,             \* the outgoing vendor payload, <<>> until built
    network,             \* number of HTTP requests the adapter has issued for this request
    result,              \* what pipe returned to the host
    conn,                \* the HTTP response of the request: "none", "open", "released"
    current_block_type,  \* Anthropic stream_response's local variable
    out,                 \* fragments the host has pulled from the generator
    held,                \* the generator is suspended at a yield: the host has control
    fault,               \* the failure that occurred, "none" if none did
    vblock,              \* vendor side: the content block currently open on the wire
    blocks,              \* vendor side: the content blocks sent so far
    nevents,             \* vendor side: events/lines sent so far
    nbad,                \* vendor side: malformed events/lines sent so far
    stopped,             \* vendor side: message_stop has been sent
    vendor_reply,        \* vendor side: the reply to pipe's own (non-streaming) request
    models_cache,        \* OpenRouter Pipe._models_cache, optional
    last_fetch_time,     \* OpenRouter Pipe._last_fetch_time
    now,                 \* time.time(), in seconds
    call,                \* the latest call of fetch_openrouter_models: see CallRecord
    last_success,        \* the last successful fetch of the catalog: [at, list], optional
    threads,             \* host threads inside fetch_openrouter_models: position and locals
    written              \* the fetches that wrote _models_cache and _last_fetch_time

catalogVars == <<models_cache, last_fetch_time, now, call, last_success, threads, written>>

vars == <<adapter, pc, THINKING_BUDGET, request, payload, network, result, conn,
          current_block_type, out, held, fault, vblock, blocks, nevents, nbad, stopped,
          vendor_reply, catalogVars>>

reqVars    == <<adapter, THINKING_BUDGET, request, payload, network, result, vendor_reply>>
vendorVars == <<vblock, blocks, nevents, nbad, stopped>>

PcValues == {"idle",       \* pipe not yet called
             "returned",   \* pipe returned a string: the request is over
             "unstarted",  \* pipe returned a generator whose body has not run
             "streaming",  \* the generator is suspended inside its event loop
             "done",       \* the generator is exhausted
             "raised",     \* an exception left pipe or the generator, into the host
             "abandoned"}  \* the host closed the generator before it was exhausted

----------------------------------------------------------------------------
(* Bounds of the model.                                                    *)

MaxEvents == 8
MaxMalformed == 1

(* The text the vendor may put in a delta of a block of each kind, and in  *)
(* the block start's inline field.                                         *)
FragsOf(kind) ==
    CASE kind = "thinking" -> {"a", "b"}
      [] kind = "text"     -> {"c", "d"}
      [] OTHER             -> {"{"}
InlineFrags == {""}

----------------------------------------------------------------------------
(* Helpers.                                                                *)

Absent == <<>>
Some(v) == <<v>>
PyNone == "None"

Get(d, k, default) == IF k \in DOMAIN d THEN d[k] ELSE default

Without(d, ks) == [k \in DOMAIN d \ ks |-> d[k]]

StartsWith(s, p) == Len(s) >= Len(p) /\ SubSeq(s, 1, Len(p)) = p

IsErrorString(s) == StartsWith(s, "Error: ")

RECURSIVE Join(_)
Join(fs) == IF fs = <<>> THEN "" ELSE Head(fs) \o Join(Tail(fs))

RECURSIVE Flatten(_)
Flatten(ss) == IF ss = <<>> THEN <<>> ELSE Head(ss) \o Flatten(Tail(ss))

----------------------------------------------------------------------------
(* Anthropic: the events of the SSE stream.                                *)
(*   json   "invalid": event.data is not JSON; "array": it is JSON but not *)
(*          an object; "object": a JSON object                             *)
(*   type   data["type"], optional                                         *)
(*   body   data["content_block"] (start) or data["delta"] (delta),        *)
(*          optional; btype is body.get("type"); frag is body["thinking"]  *)
(*          or body["text"], whichever btype names, optional               *)

Event(j, t, b) == [json |-> j, type |-> t, body |-> b]
Body(bt, f) == [btype |-> bt, frag |-> f]

EvStart(kind, inline) == Event("object", Some("content_block_start"), Some(Body(kind, inline)))
EvDelta(dtype, frag)  == Event("object", Some("content_block_delta"), Some(Body(dtype, frag)))
EvStop                == Event("object", Some("content_block_stop"), Absent)
EvMessageStop         == Event("object", Some("message_stop"), Absent)
EvPing                == Event("object", Some("ping"), Absent)

BlockTypes == {"thinking", "text", "tool_use"}

DeltaTypeOf(kind) ==
    CASE kind = "thinking" -> "thinking_delta"
      [] kind = "text"     -> "text_delta"
      [] OTHER             -> "input_json_delta"

MalformedEvents ==
    { Event("invalid", Absent, Absent),                       \* json.loads fails
      Event("object", Absent, Absent),                        \* no "type" key
      Event("object", Some("content_block_start"), Absent), \* no "content_block" key
      Event("object", Some("content_block_delta"), Absent), \* no "delta" key
      Event("array", Absent, Absent) }                        \* JSON of another shape

(* One iteration of the loop body of stream_response for event e with      *)
(* current_block_type cur: the new current_block_type, the fragments       *)
(* yielded, and how the iteration ends ("next": the loop goes on; "break";  *)
(* "raise": an exception leaves the generator).                             *)
StepResult(cur, emit, ctl) == [cur |-> cur, emit |-> emit, ctl |-> ctl]

Anthropic_block_start(cur, e) ==
    IF e.body = Absent THEN StepResult(cur, <<>>, "next")       \* KeyError, caught
    ELSE LET b == e.body[1] IN
         IF b.btype = "thinking"
         THEN StepResult(b.btype, <<"<think>">> \o b.frag, "next")
         ELSE IF b.btype = "text"
         THEN StepResult(b.btype, b.frag, "next")
         ELSE StepResult(b.btype, <<>>, "next")

Anthropic_block_delta(cur, e) ==
    IF e.body = Absent THEN StepResult(cur, <<>>, "next")       \* KeyError, caught
    ELSE LET d == e.body[1] IN
         IF d.btype \in {"thinking_delta", "text_delta"}
         THEN StepResult(cur, d.frag, "next")
         ELSE StepResult(cur, <<>>, "next")

Anthropic_block_stop_always_closes(cur, e) ==
    StepResult(PyNone, <<"</think>">>, "next")

Anthropic_block_stop(cur, e) ==
    StepResult(PyNone, IF cur = "thinking" THEN <<"</think>">> ELSE <<>>, "next")

Anthropic_event(cur, e) ==
    IF e.json = "invalid" THEN StepResult(cur, <<>>, "next")   \* JSONDecodeError, caught
    ELSE IF e.json # "object" THEN StepResult(cur, <<>>, "raise") \* TypeError, not caught
    ELSE IF e.type = Absent THEN StepResult(cur, <<>>, "next")   \* KeyError, caught
    ELSE CASE e.type[1] = "content_block_start" -> Anthropic_block_start(cur, e)
           [] e.type[1] = "content_block_delta" -> Anthropic_block_delta(cur, e)
           [] e.type[1] = "content_block_stop"  -> Anthropic_block_stop(cur, e)
           [] e.type[1] = "message_stop"        -> StepResult(cur, <<>>, "break")
           [] OTHER                             -> StepResult(cur, <<>>, "next")

----------------------------------------------------------------------------
(* The host's request.  pipe(user_message, model_id, messages, body); the  *)
(* OpenRouter pipe takes body alone and reads model and messages from it.  *)
(*   messages  a sequence of [role, content]; content is a string          *)
(*             (list = FALSE) or a list of parts (list = TRUE)             *)
(*   part      [type, data_uri, b64len]: type "text" or "image_url"; an    *)
(*             image is a data URI carrying b64len base64 characters, or   *)
(*             a remote URL (data_uri = FALSE, b64len = 0)                 *)
(*   body      a dict of the host's options                                *)
(* The messages carry no system message: pop_system_message (a library of  *)
(* the host, outside this repository) returns them unchanged, with no      *)
(* system message.                                                         *)
(* Temperatures and top_p are in tenths: 10 is 1.0, 8 is 0.8.              *)

Request(model_id, messages, body) ==
    [model_id |-> model_id, messages |-> messages, body |-> body]

StrContent == [list |-> FALSE, parts |-> <<>>]
ListContent(parts) == [list |-> TRUE, parts |-> parts]
Message(role, content) == [role |-> role, content |-> content]

TextPart == [type |-> "text", data_uri |-> FALSE, b64len |-> 0]
UrlImage == [type |-> "image_url", data_uri |-> FALSE, b64len |-> 0]
DataImage(n) == [type |-> "image_url", data_uri |-> TRUE, b64len |-> n]

(* A Python call's outcome: a value, or an exception of class exc whose    *)
(* str() is msg.                                                           *)
Ok(v) == [ok |-> TRUE, value |-> v, exc |-> "", msg |-> ""]
Raise(cls, m) == [ok |-> FALSE, value |-> <<>>, exc |-> cls, msg |-> m]

MAX_IMAGES == 5
MAX_IMAGE_BYTES == 104857600     \* 100 * 1024 * 1024

process_image(image_data) ==
    IF image_data.data_uri
    THEN [type |-> "image", source |-> "base64", b64len |-> image_data.b64len]
    ELSE [type |-> "image", source |-> "url", b64len |-> 0]

(* A limit that lets a sixth image through.                                *)
ImageLimitReached_off_by_one(image_count) == image_count > MAX_IMAGES

(* The image limit of the loop: reached once five images were taken.       *)
ImageLimitReached(image_count) == image_count >= MAX_IMAGES

(* The state of the two nested loops over messages and their parts:        *)
(* image_count, total_image_size (in quarter bytes: len * 3, compared with *)
(* 4 * the limit, as len * 3 / 4 is compared with the limit), the          *)
(* processed content of the message at hand, and the error raised.         *)
ProcessItem(st, item) ==
    IF st.err # "" THEN st
    ELSE IF item.type = "text"
    THEN [st EXCEPT !.content = Append(@, [type |-> "text"])]
    ELSE IF item.type = "image_url"
    THEN IF ImageLimitReached(st.image_count)
         THEN [st EXCEPT !.err = "Maximum of 5 images per API call exceeded"]
         ELSE LET img == process_image(item)
                  size == st.total_image_size + img.b64len * 3
              IN  IF size > 4 * MAX_IMAGE_BYTES
                  THEN [st EXCEPT !.err = "Total size of images exceeds 100 MB limit"]
                  ELSE [st EXCEPT !.content = Append(@, img),
                                  !.total_image_size = size,
                                  !.image_count = @ + 1]
    ELSE st

RECURSIVE ProcessItems(_, _)
ProcessItems(st, items) ==
    IF items = <<>> THEN st ELSE ProcessItems(ProcessItem(st, Head(items)), Tail(items))

RECURSIVE ProcessMessages(_, _)
ProcessMessages(st, msgs) ==
    IF msgs = <<>> \/ st.err # "" THEN st
    ELSE LET m  == Head(msgs)
             s1 == IF m.content.list
                   THEN ProcessItems([st EXCEPT !.content = <<>>], m.content.parts)
                   ELSE [st EXCEPT !.content = <<[type |-> "text"]>>]
             s2 == IF s1.err # "" THEN s1
                   ELSE [s1 EXCEPT !.processed =
                            Append(@, [role |-> m.role, content |-> s1.content])]
         IN  ProcessMessages(s2, Tail(msgs))

processed_messages(msgs) ==
    ProcessMessages([image_count |-> 0, total_image_size |-> 0, content |-> <<>>,
                     processed |-> <<>>, err |-> ""], msgs)

HostInternalKeys == {"user", "chat_id", "title"}

THINK_MODEL == "claude-3-7-sonnet-think"

EnsureMaxTokens_no_fix(max_tokens, thinking_budget) == max_tokens

EnsureMaxTokens(max_tokens, thinking_budget) ==
    IF max_tokens <= thinking_budget THEN thinking_budget + 1000 ELSE max_tokens

ThinkingAdjust(p, thinking_budget) ==
    LET q == Without(p, {"top_k", "top_p"})
    IN  ("thinking" :> [type |-> "enabled", budget_tokens |-> thinking_budget])
        @@ [q EXCEPT !["temperature"] = 10,
                     !["max_tokens"] = EnsureMaxTokens(p["max_tokens"], thinking_budget)]

(* Lines 94-180 of Anthropic pipe: the outgoing payload, or the exception  *)
(* raised while building it.                                               *)
Anthropic_payload(req, thinking_budget) ==
    LET body == Without(req.body, HostInternalKeys)
        thinking_enabled == req.model_id = THINK_MODEL
        model_id == IF thinking_enabled THEN "claude-3-7-sonnet-20250219" ELSE req.model_id
        pm == processed_messages(req.messages)
        base == [model          |-> model_id,
                 messages       |-> pm.processed,
                 max_tokens     |-> Get(body, "max_tokens", 4096),
                 temperature    |-> Get(body, "temperature", 8),
                 top_k          |-> Get(body, "top_k", 40),
                 top_p          |-> Get(body, "top_p", 9),
                 stop_sequences |-> Get(body, "stop", <<>>),
                 stream         |-> Get(body, "stream", FALSE)]
    IN  IF pm.err # "" THEN Raise("ValueError", pm.err)
        ELSE IF thinking_enabled THEN Ok(ThinkingAdjust(base, thinking_budget))
        ELSE Ok(base)

fireworks_model_mapping(model_id) ==
    CASE model_id = "llama-v3p1-405b-instruct" -> "accounts/fireworks/models/llama-v3p1-405b-instruct"
      [] model_id = "deepseek-v3" -> "accounts/fireworks/models/deepseek-v3"
      [] model_id = "deepseek-r1" -> "accounts/fireworks/models/deepseek-r1"
      [] OTHER -> model_id

(* Lines 80-101 of Fireworks pipe.                                         *)
Fireworks_payload(req) ==
    LET body == Without(req.body, HostInternalKeys)
    IN  Ok([model             |-> fireworks_model_mapping(req.model_id),
            messages          |-> req.messages,
            max_tokens        |-> Get(body, "max_tokens", 16384),
            temperature       |-> Get(body, "temperature", 6),
            top_k             |-> Get(body, "top_k", 40),
            top_p             |-> Get(body, "top_p", 10),
            presence_penalty  |-> Get(body, "presence_penalty", 0),
            frequency_penalty |-> Get(body, "frequency_penalty", 0),
            stream            |-> Get(body, "stream", FALSE)])

(* A payload that starts from the host body and overrides its fields.      *)
OpenRouter_payload_forwards_body(req) ==
    Ok([model       |-> req.model_id,
        messages    |-> req.messages,
        max_tokens  |-> Get(req.body, "max_tokens", 4096),
        temperature |-> Get(req.body, "temperature", 8),
        top_p       |-> Get(req.body, "top_p", 9),
        stop        |-> Get(req.body, "stop", <<>>),
        stream      |-> Get(req.body, "stream", FALSE)] @@ req.body)

(* Lines 117-131 of OpenRouter pipe.                                       *)
OpenRouter_payload(req) ==
    Ok([model       |-> req.model_id,
        messages    |-> req.messages,
        max_tokens  |-> Get(req.body, "max_tokens", 4096),
        temperature |-> Get(req.body, "temperature", 8),
        top_p       |-> Get(req.body, "top_p", 9),
        stop        |-> Get(req.body, "stop", <<>>),
        stream      |-> Get(req.body, "stream", FALSE)])

----------------------------------------------------------------------------
(* The vendor's HTTP reply to requests.post.                               *)
(*   connected  FALSE: requests raises ConnectionError                     *)
(*   status     the status code; text the body as text                     *)
(*   res        response.json().  Anthropic: [content: optional list of    *)
(*              blocks], a block being [type, payload] with payload the    *)
(*              optional "thinking" or "text" key its type names.          *)
(*              Fireworks, OpenRouter: [choices: optional list], a choice  *)
(*              being [message: optional [content: optional string]].      *)

Reply(connected, status, text, res) ==
    [connected |-> connected, status |-> status, text |-> text, res |-> res]

NoReply == Reply(FALSE, 0, "", <<>>)

StatusStr(n) == CASE n = 200 -> "200" [] n = 401 -> "401" [] n = 500 -> "500" [] OTHER -> "0"

Block(type, p) == [type |-> type, payload |-> p]
Choice(message) == [message |-> message]

RequestExceptions == {"ConnectionError", "ChunkedEncodingError"}

ThinkingBlockText_no_close(block) ==
    "<think>" \o Get(block.payload, 1, "")

ThinkingBlockText(block) ==
    "<think>" \o Get(block.payload, 1, "") \o "</think>"

RECURSIVE Anthropic_output(_)
Anthropic_output(content) ==
    IF content = <<>> THEN ""
    ELSE LET block == Head(content)
             piece == IF block.type = "thinking" THEN ThinkingBlockText(block)
                      ELSE IF block.type = "text" THEN Get(block.payload, 1, "")
                      ELSE ""
         IN  piece \o Anthropic_output(Tail(content))

Anthropic_get_completion(reply) ==
    IF ~reply.connected THEN Raise("ConnectionError", "connection failed")
    ELSE IF reply.status = 200
    THEN Ok(Anthropic_output(Get(reply.res.content, 1, <<>>)))
    ELSE Raise("Exception", "Error: " \o StatusStr(reply.status) \o " - " \o reply.text)

(* res["choices"][0]["message"]["content"] if "choices" in res and         *)
(* res["choices"] else ""                                                  *)
ChoiceContent(res) ==
    IF res.choices = Absent \/ res.choices[1] = <<>> THEN Ok("")
    ELSE LET choice == res.choices[1][1] IN
         IF choice.message = Absent THEN Raise("KeyError", "'message'")
         ELSE IF choice.message[1].content = Absent THEN Raise("KeyError", "'content'")
         ELSE Ok(choice.message[1].content[1])

Fireworks_get_completion(reply) ==
    IF ~reply.connected THEN Raise("ConnectionError", "connection failed")
    ELSE IF reply.status # 200
    THEN Raise("Exception", "HTTP Error " \o StatusStr(reply.status) \o ": " \o reply.text)
    ELSE ChoiceContent(reply.res)

OpenRouter_non_stream_response(reply) ==
    LET r == IF ~reply.connected THEN Raise("ConnectionError", "connection failed")
             ELSE IF reply.status # 200
             THEN Raise("Exception", "HTTP Error " \o StatusStr(reply.status) \o ": " \o reply.text)
             ELSE ChoiceContent(reply.res)
    IN  IF ~r.ok /\ r.exc \in RequestExceptions THEN Ok("Error: " \o r.msg) ELSE r

----------------------------------------------------------------------------
(* Fireworks, OpenRouter: the lines of the streamed body.                  *)
(*   empty    the line is empty (a keep-alive)                             *)
(*   utf8     line.decode("utf-8") succeeds                                *)
(*   data     the line starts with "data: "                                *)
(*   json     what json.loads makes of the rest: "invalid" (as for         *)
(*            "data: [DONE]"), "number", "array", "object"                 *)
(*   choices  data["choices"], optional: a list of [delta, message], each  *)
(*            optional and holding an optional content                     *)

Line(empty, utf8, data, json, choices) ==
    [empty |-> empty, utf8 |-> utf8, data |-> data, json |-> json, choices |-> choices]

Chunk(delta, message) == [delta |-> delta, message |-> message]
Content(c) == [content |-> c]

DataLine(choices) == Line(FALSE, TRUE, TRUE, "object", choices)
DeltaLine(f) == DataLine(Some(<<Chunk(Some(Content(Some(f))), Absent)>>))

LineResult(emit, ctl, m) == [emit |-> emit, ctl |-> ctl, msg |-> m]

Fireworks_line(line) ==
    IF line.empty THEN LineResult(<<>>, "next", "")
    ELSE IF ~line.utf8 THEN LineResult(<<>>, "raise", "'utf-8' codec can't decode byte")
    ELSE IF ~line.data THEN LineResult(<<>>, "next", "")
    ELSE IF line.json = "invalid" THEN LineResult(<<>>, "next", "")    \* JSONDecodeError, caught
    ELSE IF line.json = "number"
    THEN LineResult(<<>>, "raise", "argument of type 'int' is not iterable")  \* TypeError
    ELSE IF line.json = "array" THEN LineResult(<<>>, "next", "")      \* "choices" in [] is False
    ELSE IF line.choices = Absent \/ line.choices[1] = <<>> THEN LineResult(<<>>, "next", "")
    ELSE LET choice == line.choices[1][1] IN
         IF choice.delta = Absent THEN LineResult(<<>>, "next", "")    \* KeyError, caught
         ELSE LET content == Get(choice.delta[1].content, 1, PyNone) IN
              IF content \in {PyNone, ""} THEN LineResult(<<>>, "next", "")
              ELSE LineResult(<<content>>, "next", "")

OpenRouter_line(line) ==
    IF line.empty THEN LineResult(<<>>, "next", "")
    ELSE IF ~line.utf8 THEN LineResult(<<>>, "raise", "'utf-8' codec can't decode byte")
    ELSE IF ~line.data THEN LineResult(<<>>, "next", "")
    ELSE IF line.json = "invalid" THEN LineResult(<<>>, "next", "")    \* JSONDecodeError, caught
    ELSE IF line.json = "number"
    THEN LineResult(<<>>, "raise", "argument of type 'int' is not iterable")  \* TypeError
    ELSE IF line.json = "array" THEN LineResult(<<>>, "next", "")
    ELSE IF line.choices = Absent \/ line.choices[1] = <<>> THEN LineResult(<<>>, "next", "")
    ELSE LET choice == line.choices[1][1] IN
         IF choice.delta # Absent /\ choice.delta[1].content # Absent
         THEN LineResult(choice.delta[1].content, "next", "")
         ELSE IF choice.message # Absent /\ choice.message[1].content # Absent
         THEN LineResult(choice.message[1].content, "next", "")
         ELSE LineResult(<<>>, "next", "")

LineFrags == {"x", "y"}

WellFormedLines ==
    { DeltaLine(f) : f \in LineFrags }
    \cup { Line(TRUE, TRUE, FALSE, "invalid", Absent),       \* empty keep-alive line
           Line(FALSE, TRUE, FALSE, "invalid", Absent),      \* ": comment" line
           DataLine(Some(<<>>)),                             \* no choices
           DataLine(Some(<<Chunk(Some(Content(Absent)), Absent)>>)) }  \* role-only delta

MalformedLines ==
    { Line(FALSE, TRUE, TRUE, "invalid", Absent),            \* not JSON
      Line(FALSE, FALSE, FALSE, "invalid", Absent),          \* not UTF-8
      Line(FALSE, TRUE, TRUE, "number", Absent),             \* JSON of another shape
      DataLine(Some(<<Chunk(Absent, Absent)>>)) }            \* choice without "delta"

----------------------------------------------------------------------------
(* pipe.  What a call of pipe leaves behind:                               *)
(*   payload  the payload built, optional                                  *)
(*   network  the HTTP requests issued during the call                     *)
(*   result   what the host gets: [kind |-> "string", text] or [kind |->  *)
(*            "generator"]; every exception raised inside pipe's try is    *)
(*            caught there                                                 *)
(*   fault    the failure met: "none", "validation", "connect", "status",  *)
(*            "extract"                                                    *)

StringResult(t) == [kind |-> "string", text |-> t]
GeneratorResult == [kind |-> "generator", text |-> ""]
NoResult == [kind |-> "none", text |-> ""]

PipeOutcome(p, n, r, f) == [payload |-> p, network |-> n, result |-> r, fault |-> f]

FaultOf(reply, c) ==
    IF c.ok THEN "none"
    ELSE IF ~reply.connected THEN "connect"
    ELSE IF reply.status # 200 THEN "status"
    ELSE "extract"

(* try: ... return self.get_completion(payload)                            *)
(* except Exception as e: return f"Error: {e}"                             *)
CatchAll(c) == IF c.ok THEN StringResult(c.value) ELSE StringResult("Error: " \o c.msg)

Anthropic_pipe(req, thinking_budget, reply) ==
    LET p == Anthropic_payload(req, thinking_budget) IN
    IF ~p.ok THEN PipeOutcome(Absent, 0, CatchAll(p), "validation")
    ELSE IF Get(req.body, "stream", FALSE)
    THEN PipeOutcome(Some(p.value), 0, GeneratorResult, "none")
    ELSE LET c == Anthropic_get_completion(reply)
         IN  PipeOutcome(Some(p.value), 1, CatchAll(c), FaultOf(reply, c))

Fireworks_pipe(req, reply) ==
    LET p == Fireworks_payload(req) IN
    IF Get(req.body, "stream", FALSE)
    THEN PipeOutcome(Some(p.value), 0, GeneratorResult, "none")
    ELSE LET c == Fireworks_get_completion(reply)
         IN  PipeOutcome(Some(p.value), 1, CatchAll(c), FaultOf(reply, c))

OpenRouter_pipe(req, reply) ==
    LET p == OpenRouter_payload(req) IN
    IF Get(req.body, "stream", FALSE)
    THEN PipeOutcome(Some(p.value), 0, GeneratorResult, "none")
    ELSE LET c == OpenRouter_non_stream_response(reply)
         IN  PipeOutcome(Some(p.value), 1, CatchAll(c),
                         IF ~reply.connected THEN "connect" ELSE FaultOf(reply, c))

Adapters == {"anthropic", "fireworks", "openrouter"}

PipeCall(a, req, thinking_budget, reply) ==
    CASE a = "anthropic"  -> Anthropic_pipe(req, thinking_budget, reply)
      [] a = "fireworks"  -> Fireworks_pipe(req, reply)
      [] a = "openrouter" -> OpenRouter_pipe(req, reply)

(* The host calls pipe with a request drawn from reqs; the vendor's reply  *)
(* to a non-streaming request is drawn from replies.                       *)
Pipe(reqs, replies) ==
    /\ pc = "idle"
    /\ \E req \in reqs, rep \in replies :
          LET o == PipeCall(adapter, req, THINKING_BUDGET, rep) IN
          /\ request' = req
          /\ vendor_reply' = IF o.network > 0 THEN rep ELSE vendor_reply
          /\ payload' = o.payload
          /\ network' = o.network
          /\ result' = o.result
          /\ fault' = o.fault
          /\ pc' = IF o.result.kind = "generator" THEN "unstarted" ELSE "returned"
          /\ conn' = IF o.network > 0 /\ rep.connected THEN "released" ELSE "none"
    /\ UNCHANGED <<adapter, THINKING_BUDGET, current_block_type, out, held, vendorVars>>
    /\ UNCHANGED catalogVars

----------------------------------------------------------------------------
(* stream_response: the generators.  The first pull runs the body up to    *)
(* the event loop (requests.post and the status check); each later step    *)
(* takes one event or line from the vendor through one loop iteration.     *)

StreamReplies == { NoReply, Reply(TRUE, 200, "", <<>>), Reply(TRUE, 401, "denied", <<>>) }

HttpError(reply) == "HTTP Error " \o StatusStr(reply.status) \o ": " \o reply.text

(* Anthropic, lines 190-194 and 238-239: the response is bound to a local  *)
(* name and nothing closes it.                                             *)
Anthropic_stream_start ==
    /\ adapter = "anthropic" /\ pc = "unstarted"
    /\ \E rep \in StreamReplies :
          /\ network' = network + 1
          /\ IF ~rep.connected
             THEN pc' = "raised" /\ fault' = "connect" /\ conn' = "none"
             ELSE IF rep.status = 200
             THEN pc' = "streaming" /\ fault' = fault /\ conn' = "open"
             ELSE pc' = "raised" /\ fault' = "status" /\ conn' = "open"
    /\ current_block_type' = PyNone
    /\ UNCHANGED <<adapter, THINKING_BUDGET, request, payload, result, vendor_reply, out, held, vendorVars>>
    /\ UNCHANGED catalogVars

(* Fireworks, lines 119-122: the response is the subject of a with.        *)
Fireworks_stream_start ==
    /\ adapter = "fireworks" /\ pc = "unstarted"
    /\ \E rep \in StreamReplies :
          /\ network' = network + 1
          /\ IF ~rep.connected
             THEN pc' = "raised" /\ fault' = "connect" /\ conn' = "none"
             ELSE IF rep.status = 200
             THEN pc' = "streaming" /\ fault' = fault /\ conn' = "open"
             ELSE pc' = "raised" /\ fault' = "status" /\ conn' = "released"
    /\ UNCHANGED <<adapter, THINKING_BUDGET, request, payload, result, vendor_reply, out, held,
                   current_block_type, vendorVars>>
    /\ UNCHANGED catalogVars

(* OpenRouter, lines 148-153 and 175-180: a with inside a try whose        *)
(* handlers yield the error as a fragment.                                 *)
OpenRouter_stream_start ==
    /\ adapter = "openrouter" /\ pc = "unstarted"
    /\ \E rep \in StreamReplies :
          /\ network' = network + 1
          /\ IF ~rep.connected
             THEN /\ pc' = "done" /\ fault' = "connect" /\ conn' = "none"
                  /\ out' = Append(out, "Error: Request failed: connection failed")
             ELSE IF rep.status = 200
             THEN pc' = "streaming" /\ fault' = fault /\ conn' = "open" /\ out' = out
             ELSE /\ pc' = "done" /\ fault' = "status" /\ conn' = "released"
                  /\ out' = Append(out, "Error: " \o HttpError(rep))
    /\ held' = (out' # out)
    /\ UNCHANGED <<adapter, THINKING_BUDGET, request, payload, result, vendor_reply,
                   current_block_type, vendorVars>>
    /\ UNCHANGED catalogVars

(* The events a vendor that frames its blocks correctly may send next: a   *)
(* block start when no block is open, deltas of the open block's kind and  *)
(* its stop when one is, message_stop between blocks; and, up to           *)
(* MaxMalformed times, a malformed event anywhere.                         *)
VendorEvents ==
    (IF vblock = PyNone
     THEN { EvStart(k, i) : k \in BlockTypes,
                            i \in {Absent} \cup { Some(f) : f \in InlineFrags } }
          \cup { EvMessageStop, EvPing }
     ELSE { EvDelta(DeltaTypeOf(vblock), Some(f)) : f \in FragsOf(vblock) } \cup { EvStop })
    \cup (IF nbad < MaxMalformed THEN MalformedEvents ELSE {})

(* The vendor's own account of what it sent.                               *)
VendorSends(e) ==
    /\ nevents' = nevents + 1
    /\ nbad' = IF e \in MalformedEvents THEN nbad + 1 ELSE nbad
    /\ stopped' = (e = EvMessageStop)
    /\ IF e \in MalformedEvents \/ e.type[1] \in {"message_stop", "ping"}
       THEN UNCHANGED <<vblock, blocks>>
       ELSE IF e.type[1] = "content_block_start"
       THEN /\ vblock' = e.body[1].btype
            /\ blocks' = Append(blocks, [type |-> e.body[1].btype, frags |-> e.body[1].frag])
       ELSE IF e.type[1] = "content_block_delta"
       THEN /\ vblock' = vblock
            /\ blocks' = [blocks EXCEPT ![Len(blocks)].frags = @ \o e.body[1].frag]
       ELSE /\ vblock' = PyNone
            /\ blocks' = blocks

(* Anthropic, lines 196-237: one iteration of the event loop.              *)
Anthropic_stream_event ==
    /\ adapter = "anthropic" /\ pc = "streaming" /\ nevents < MaxEvents
    /\ \E e \in VendorEvents :
          LET r == Anthropic_event(current_block_type, e) IN
          /\ VendorSends(e)
          /\ current_block_type' = r.cur
          /\ out' = out \o r.emit
          /\ pc' = CASE r.ctl = "next"  -> "streaming"
                     [] r.ctl = "break" -> "done"
                     [] r.ctl = "raise" -> "raised"
          /\ fault' = IF r.ctl = "raise" THEN "event" ELSE fault
          /\ held' = (r.emit # <<>>)
    /\ UNCHANGED <<reqVars, conn>>
    /\ UNCHANGED catalogVars

VendorLines ==
    WellFormedLines \cup (IF nbad < MaxMalformed THEN MalformedLines ELSE {})

VendorSendsLine(l) ==
    /\ nevents' = nevents + 1
    /\ nbad' = IF l \in MalformedLines THEN nbad + 1 ELSE nbad
    /\ UNCHANGED <<vblock, blocks, stopped>>

(* Fireworks, lines 124-139: one iteration of the line loop.  An exception *)
(* leaves through the with, which closes the response.                     *)
Fireworks_stream_line ==
    /\ adapter = "fireworks" /\ pc = "streaming" /\ nevents < MaxEvents
    /\ \E l \in VendorLines :
          LET r == Fireworks_line(l) IN
          /\ VendorSendsLine(l)
          /\ out' = out \o r.emit
          /\ pc' = IF r.ctl = "raise" THEN "raised" ELSE "streaming"
          /\ fault' = IF r.ctl = "raise" THEN "event" ELSE fault
          /\ conn' = IF r.ctl = "raise" THEN "released" ELSE conn
          /\ held' = (out' # out)
    /\ UNCHANGED <<reqVars, current_block_type>>
    /\ UNCHANGED catalogVars

(* OpenRouter, lines 155-180: one iteration of the line loop.  An          *)
(* exception is caught outside the with: the response is closed, the       *)
(* error is yielded as a fragment and the generator ends.                  *)
OpenRouter_stream_line ==
    /\ adapter = "openrouter" /\ pc = "streaming" /\ nevents < MaxEvents
    /\ \E l \in VendorLines :
          LET r == OpenRouter_line(l) IN
          /\ VendorSendsLine(l)
          /\ out' = IF r.ctl = "raise" THEN Append(out, "Error: " \o r.msg) ELSE out \o r.emit
          /\ pc' = IF r.ctl = "raise" THEN "done" ELSE "streaming"
          /\ fault' = IF r.ctl = "raise" THEN "event" ELSE fault
          /\ conn' = IF r.ctl = "raise" THEN "released" ELSE conn
          /\ held' = (out' # out)
    /\ UNCHANGED <<reqVars, current_block_type>>
    /\ UNCHANGED catalogVars

(* The vendor ends the body: the loop runs out and the generator returns.  *)
(* A body read to its end is released by the HTTP library, with or         *)
(* without a with.                                                         *)
StreamEnds ==
    /\ pc = "streaming"
    /\ pc' = "done"
    /\ conn' = "released"
    /\ held' = FALSE
    /\ UNCHANGED <<reqVars, current_block_type, out, fault, vendorVars>>
    /\ UNCHANGED catalogVars

(* The connection breaks while the body is read: the iterator raises       *)
(* ChunkedEncodingError, a RequestException.                               *)
StreamBreaks ==
    /\ pc = "streaming"
    /\ fault' = "drop"
    /\ conn' = "released"
    /\ IF adapter = "openrouter"
       THEN pc' = "done" /\ out' = Append(out, "Error: Request failed: connection broken")
       ELSE pc' = "raised" /\ out' = out
    /\ held' = (out' # out)
    /\ UNCHANGED <<reqVars, current_block_type, vendorVars>>
    /\ UNCHANGED catalogVars

(* with ... as response: the response is released when the generator is   *)
(* closed; Anthropic's stream_response has no with.                        *)
ReleasesOnClose(a) == a \in {"fireworks", "openrouter"}

(* The host stops pulling and closes (or drops) the generator, which it    *)
(* can do when the generator has not started or is suspended at a yield:   *)
(* GeneratorExit is raised at that yield.                                  *)
HostAbandons ==
    /\ pc = "unstarted" \/ (pc = "streaming" /\ held)
    /\ pc' = "abandoned"
    /\ conn' = IF conn = "open" /\ ReleasesOnClose(adapter) THEN "released" ELSE conn
    /\ UNCHANGED <<reqVars, current_block_type, out, held, fault, vendorVars>>
    /\ UNCHANGED catalogVars

----------------------------------------------------------------------------
(* OpenRouter: the model catalog, fetch_openrouter_models.                 *)
(* A remote model record is [id, name, ok]; name is the list of the        *)
(* segments of its slash-qualified name; ok = FALSE is a record the        *)
(* transformation chokes on (its "name" is null: None has no split).       *)

CACHE_DURATION == 300

RemoteModel(id, name) == [id |-> id, name |-> name, ok |-> TRUE]

FallbackModels ==
    << [id |-> "openai/gpt-3.5-turbo", name |-> "gpt-3.5-turbo"],
       [id |-> "openai/gpt-4", name |-> "gpt-4"],
       [id |-> "anthropic/claude-3.5-sonnet", name |-> "claude-3.5-sonnet"] >>

(* The answers of GET /api/v1/models: no answer (timeout, connection       *)
(* failure), another status than 200, or 200 with a list of records.       *)
Catalogs ==
    { <<>>,
      << RemoteModel("openai/gpt-4", <<"OpenAI", "gpt-4">>) >>,
      << RemoteModel("openai/gpt-4", <<"OpenAI", "gpt-4">>),
         RemoteModel("x/y", <<"y">>) >>,
      << [id |-> "bad", name |-> <<>>, ok |-> FALSE] >> }

CatalogAnswers ==
    { Reply(FALSE, 0, "", <<>>), Reply(TRUE, 500, "oops", <<>>) }
    \cup { Reply(TRUE, 200, "", c) : c \in Catalogs }

(* Lines 74-86: name.split("/")[-1] keeps the last segment.                *)
model_info(model) == [id |-> model.id, name |-> model.name[Len(model.name)]]

process_models(data) ==
    IF \E i \in 1..Len(data) : ~data[i].ok
    THEN Raise("AttributeError", "'NoneType' object has no attribute 'split'")
    ELSE Ok([i \in 1..Len(data) |-> model_info(data[i])])

(* Line 58.                                                                *)
CacheValid_truthy(cache, last, current_time) ==
    cache # Absent /\ cache[1] # <<>> /\ (current_time - last) < CACHE_DURATION

CacheValid(cache, last, current_time) ==
    cache # Absent /\ (current_time - last) < CACHE_DURATION

(* Lines 94-104: what the except branch returns and leaves in the cache    *)
(* and the timestamp.                                                      *)
CatalogOutcome(ret, cache, last, attempts, failed) ==
    [ret |-> ret, cache |-> cache, last |-> last, attempts |-> attempts, failed |-> failed]

OnFetchFailure_caches_fallback(cache, last, current_time) ==
    IF cache # Absent THEN CatalogOutcome(cache[1], cache, last, 1, TRUE)
    ELSE CatalogOutcome(FallbackModels, Some(FallbackModels), current_time, 1, TRUE)

OnFetchFailure(cache, last, current_time) ==
    IF cache # Absent THEN CatalogOutcome(cache[1], cache, last, 1, TRUE)
    ELSE CatalogOutcome(FallbackModels, cache, last, 1, TRUE)

fetch_openrouter_models(cache, last, current_time, answer) ==
    IF CacheValid(cache, last, current_time)
    THEN CatalogOutcome(cache[1], cache, last, 0, FALSE)
    ELSE IF ~answer.connected \/ answer.status # 200
    THEN OnFetchFailure(cache, last, current_time)
    ELSE LET processed == process_models(answer.res) IN
         IF ~processed.ok THEN OnFetchFailure(cache, last, current_time)
         ELSE CatalogOutcome(processed.value, Some(processed.value), current_time, 1, FALSE)

(* The record of a call, kept for the properties: its number, the time it  *)
(* was made at, the cache, timestamp and last successful fetch it found,   *)
(* the fetch attempts it made, whether its fetch failed, what it returned, *)
(* and whether the call before it had failed.                              *)
CallRecord(n, at, cache, last, success, o, prev_failed) ==
    [n |-> n, at |-> at, cache_before |-> cache, last_before |-> last,
     success_before |-> success, attempts |-> o.attempts, failed |-> o.failed,
     ret |-> o.ret, prev_failed |-> prev_failed]

NoCall == CallRecord(0, 0, Absent, 0, Absent, CatalogOutcome(<<>>, Absent, 0, 0, FALSE), FALSE)

MaxCalls == 4
MaxElapsed == 700
TickSteps == {150, 299, 300}

(* The host threads that may call fetch_openrouter_models at once.  A      *)
(* thread is at "idle" (outside the method), "check" (line 58, with        *)
(* current_time read), "fetch" (lines 61-86), "update" (line 89) or        *)
(* "stamp" (line 90); fetch numbers the fetch it is making.                *)
Threads == {"t1", "t2"}

ThreadState(at, current_time, processed_models, fetch) ==
    [at |-> at, current_time |-> current_time, processed_models |-> processed_models,
     fetch |-> fetch]

ThreadIdle == ThreadState("idle", 0, <<>>, 0)

requestVars == <<adapter, pc, THINKING_BUDGET, request, payload, network, result, conn,
                 current_block_type, out, held, fault, vendorVars, vendor_reply>>

(* The host asks for the catalog.                                          *)
FetchModels ==
    /\ call.n < MaxCalls
    /\ \E answer \in CatalogAnswers :
          LET o == fetch_openrouter_models(models_cache, last_fetch_time, now, answer) IN
          /\ models_cache' = o.cache
          /\ last_fetch_time' = o.last
          /\ call' = CallRecord(call.n + 1, now, models_cache, last_fetch_time,
                                last_success, o, call.failed)
          /\ last_success' = IF o.attempts > 0 /\ ~o.failed
                             THEN Some([at |-> now, list |-> o.ret]) ELSE last_success
    /\ UNCHANGED <<now, threads, written, requestVars>>

(* Time passes.                                                            *)
Tick ==
    /\ \E d \in TickSteps :
          /\ now + d <= 1000 + MaxElapsed
          /\ now' = now + d
    /\ UNCHANGED <<models_cache, last_fetch_time, call, last_success, threads, written,
                   requestVars>>

InitCatalogVars ==
    /\ models_cache = Absent
    /\ last_fetch_time = 0
    /\ now = 1000
    /\ call = NoCall
    /\ last_success = Absent
    /\ threads = [t \in Threads |-> ThreadIdle]
    /\ written = [cache |-> 0, time |-> 0, fetches |-> 0]

----------------------------------------------------------------------------
(* The streaming specification: a streaming request to any adapter, from   *)
(* the call of pipe to the end of the generator.                           *)

TextMessages == << Message("user", StrContent) >>

SixImages == << Message("user", ListContent(<<TextPart, UrlImage, UrlImage, UrlImage>>)),
               Message("user", ListContent(<<UrlImage, UrlImage, UrlImage>>)) >>

StreamRequests ==
    { Request("claude-3-5-sonnet-20241022", TextMessages, [stream |-> TRUE]),
      Request("claude-3-5-sonnet-20241022", TextMessages, [stream |-> FALSE]),
      Request("claude-3-5-sonnet-20241022", SixImages, [stream |-> TRUE]) }

(* The vendor's replies to a non-streaming request, in the shape adapter a *)
(* expects.                                                                *)
PlainReplies(a) ==
    { NoReply, Reply(TRUE, 401, "denied", <<>>),
      Reply(TRUE, 200, "",
            IF a = "anthropic"
            THEN [content |-> Some(<<Block("text", Some("t"))>>)]
            ELSE [choices |-> Some(<<Choice(Some(Content(Some("t"))))>>)]) }

DEFAULT_THINKING_BUDGET == 16000

InitRequest ==
    /\ pc = "idle"
    /\ request = <<>>
    /\ payload = Absent
    /\ network = 0
    /\ result = NoResult
    /\ conn = "none"
    /\ current_block_type = PyNone
    /\ out = <<>>
    /\ held = FALSE
    /\ fault = "none"
    /\ vblock = PyNone
    /\ blocks = <<>>
    /\ nevents = 0
    /\ nbad = 0
    /\ stopped = FALSE
    /\ vendor_reply = NoReply
    /\ InitCatalogVars

InitStream ==
    adapter \in Adapters /\ THINKING_BUDGET = DEFAULT_THINKING_BUDGET /\ InitRequest

NextStream ==
    \/ Pipe(StreamRequests, PlainReplies(adapter))
    \/ Anthropic_stream_start
    \/ Fireworks_stream_start
    \/ OpenRouter_stream_start
    \/ Anthropic_stream_event
    \/ Fireworks_stream_line
    \/ OpenRouter_stream_line
    \/ StreamEnds
    \/ StreamBreaks
    \/ HostAbandons

SpecStream == InitStream /\ [][NextStream]_vars

----------------------------------------------------------------------------
(* The catalog specification: calls of fetch_openrouter_models on one      *)
(* OpenRouter Pipe, one at a time, as time passes.                         *)

InitCatalog ==
    adapter = "openrouter" /\ THINKING_BUDGET = DEFAULT_THINKING_BUDGET /\ InitRequest

NextCatalog == FetchModels \/ Tick

SpecCatalog == InitCatalog /\ [][NextCatalog]_vars

----------------------------------------------------------------------------
(* Properties of the streaming specification.                              *)

(* What a stream's blocks are expected to normalize to, block by block.    *)
BlockFragments(b) ==
    IF b.type = "thinking" THEN <<"<think>">> \o b.frags \o <<"</think>">>
    ELSE IF b.type = "text" THEN b.frags
    ELSE <<>>

ExpectedFragments(bs) == Flatten([i \in 1..Len(bs) |-> BlockFragments(bs[i])])

(* C1: once a well-formed Anthropic stream (blocks framed start, deltas,   *)
(* stop, then message_stop, no malformed event) has been consumed, the     *)
(* fragments emitted are, block by block in arrival order, "<think>", the  *)
(* block's fragments and "</think>" for a thinking block, and the block's  *)
(* fragments for a text block.                                             *)
C1_WellFormedStreamNormalized ==
    (adapter = "anthropic" /\ pc = "done" /\ stopped /\ nbad = 0)
        => out = ExpectedFragments(blocks)

C1_Witness ==
    /\ adapter = "anthropic" /\ pc = "done" /\ stopped /\ nbad = 0
    /\ blocks = << [type |-> "thinking", frags |-> <<"a", "b">>],
                   [type |-> "text", frags |-> <<"c">>] >>
    /\ out = <<"<think>", "a", "b", "</think>", "c">>

(* C2: in each of the three normalizers, a step that takes a malformed     *)
(* event leaves the generator running, emits nothing and changes nothing   *)
(* that later events depend on.                                            *)
C2_MalformedEventSkippedAlone ==
    [][nbad' > nbad =>
          (pc' = "streaming" /\ out' = out /\ current_block_type' = current_block_type)]_vars

ErrorReported ==
    \/ result.kind = "string" /\ IsErrorString(result.text)
    \/ result.kind = "generator" /\ out # <<>> /\ IsErrorString(out[Len(out)])

(* C3: a validation or transport failure never reaches the host as an      *)
(* exception; the host is handed a string that begins with "Error: ".      *)
C3_FailureReturnedAsErrorString ==
    fault \in {"validation", "connect", "status"} => (pc # "raised" /\ ErrorReported)

(* C6: once the host has abandoned the fragment sequence, the HTTP         *)
(* response opened for the request is not left open.                       *)
C6_AbandonReleasesConnection ==
    pc = "abandoned" => conn # "open"

----------------------------------------------------------------------------
(* Properties of the catalog specification.                                *)

(* C4: a call of fetch_openrouter_models makes a network fetch exactly     *)
(* when no successful fetch is cached or the cached one is at least        *)
(* CACHE_DURATION seconds old, and never more than one; a call that makes  *)
(* none returns the list of the last successful fetch.                     *)
C4_FetchIffNoFreshCache ==
    call.n > 0 =>
        /\ call.attempts \in {0, 1}
        /\ (call.attempts = 1) <=>
               (\/ call.success_before = Absent
                \/ call.at - call.success_before[1].at >= CACHE_DURATION)
        /\ call.attempts = 0 => call.ret = call.success_before[1].list

C4_Witness ==
    /\ call.n >= 2 /\ call.attempts = 0
    /\ call.at - call.success_before[1].at = CACHE_DURATION - 1
    /\ call.ret = call.success_before[1].list
    /\ Len(call.ret) = 2

(* C5: a call whose fetch fails returns the cached list if there is one,   *)
(* stale or not, and the three-entry fallback list otherwise; it leaves    *)
(* the cache and the recorded fetch time as they were; and the call after  *)
(* it attempts a fetch again.                                              *)
C5_FailureServesStaleOrFallback ==
    /\ call.failed =>
          /\ call.ret = IF call.cache_before # Absent THEN call.cache_before[1]
                        ELSE FallbackModels
          /\ Len(FallbackModels) = 3
          /\ models_cache = call.cache_before
          /\ last_fetch_time = call.last_before
    /\ call.prev_failed => call.attempts = 1

C5_Witness ==
    /\ call.failed /\ call.prev_failed
    /\ call.cache_before # Absent
    /\ call.at - call.last_before >= CACHE_DURATION
    /\ call.ret = call.cache_before[1]
    /\ models_cache = call.cache_before

----------------------------------------------------------------------------
(* The completion specification: a non-streaming request to any adapter,   *)
(* answered by the vendor with any of a set of replies.                    *)

MaxBlocks == 2
MaxChoices == 2

SeqsUpTo(S, n) == UNION { [1..k -> S] : k \in 0..n }

BlockPayloads == { Absent, Some("r"), Some("t"), Some("rt") }

ContentBlocks == { Block(t, p) : t \in BlockTypes, p \in BlockPayloads }

Choices ==
    { Choice(Absent) }
    \cup { Choice(Some(Content(c))) : c \in { Absent, Some(""), Some("t"), Some(PyNone) } }

CompletionReplies(a) ==
    { NoReply, Reply(TRUE, 401, "denied", <<>>) }
    \cup (IF a = "anthropic"
          THEN { Reply(TRUE, 200, "", [content |-> c]) :
                    c \in {Absent} \cup { Some(bs) : bs \in SeqsUpTo(ContentBlocks, MaxBlocks) } }
          ELSE { Reply(TRUE, 200, "", [choices |-> c]) :
                    c \in {Absent} \cup { Some(cs) : cs \in SeqsUpTo(Choices, MaxChoices) } })

CompletionRequests ==
    { Request("claude-3-5-sonnet-20241022", TextMessages, [stream |-> FALSE]) }

NextCompletion == Pipe(CompletionRequests, CompletionReplies(adapter))

SpecCompletion == InitStream /\ [][NextCompletion]_vars

(* A reply body that carries no content: no content blocks, no choices, or *)
(* a first choice without message content.                                 *)
NoContent(a, res) ==
    IF a = "anthropic"
    THEN res.content = Absent \/ res.content[1] = <<>>
    ELSE \/ res.choices = Absent
         \/ res.choices[1] = <<>>
         \/ res.choices[1][1].message = Absent
         \/ res.choices[1][1].message[1].content = Absent

(* C9: a 200 reply with no content blocks, no choices, or a first choice   *)
(* without message content makes pipe return the empty string.             *)
C9_NoContentYieldsEmptyString ==
    (/\ pc = "returned" /\ vendor_reply.connected /\ vendor_reply.status = 200
     /\ NoContent(adapter, vendor_reply.res))
        => result = StringResult("")

(* The whole of Anthropic's stream_response on a list of events: the       *)
(* fragments it yields.                                                    *)
RECURSIVE Anthropic_stream_fragments(_, _)
Anthropic_stream_fragments(cur, events) ==
    IF events = <<>> THEN <<>>
    ELSE LET r == Anthropic_event(cur, Head(events)) IN
         r.emit \o (IF r.ctl = "next" THEN Anthropic_stream_fragments(r.cur, Tail(events))
                    ELSE <<>>)

(* A content block of a non-streaming reply delivered as a well-formed     *)
(* stream: its text cut after k characters, the first piece inline on the  *)
(* block start or in a delta of its own, the rest in a second delta.       *)
Cut(k, text) == IF k < Len(text) THEN k ELSE Len(text)

BlockEvents(b, k, inline) ==
    IF b.payload = Absent THEN <<EvStart(b.type, Absent), EvStop>>
    ELSE LET text == b.payload[1]
             one  == SubSeq(text, 1, Cut(k, text))
             two  == SubSeq(text, Cut(k, text) + 1, Len(text))
         IN  (IF inline THEN <<EvStart(b.type, Some(one))>>
              ELSE <<EvStart(b.type, Absent), EvDelta(DeltaTypeOf(b.type), Some(one))>>)
             \o <<EvDelta(DeltaTypeOf(b.type), Some(two)), EvStop>>

AsStream(content, k, inline) ==
    Flatten([i \in 1..Len(content) |-> BlockEvents(content[i], k, inline)])
        \o <<EvMessageStop>>

BlockText(b) ==
    IF b.type = "thinking" THEN "<think>" \o Get(b.payload, 1, "") \o "</think>"
    ELSE IF b.type = "text" THEN Get(b.payload, 1, "")
    ELSE ""

MaxCut == 2

(* C10: Anthropic's get_completion returns the concatenation, in document  *)
(* order, of "<think>" + text + "</think>" for each thinking block and the *)
(* text of each text block, which is the concatenation of the fragments    *)
(* stream_response yields for the same blocks delivered as a well-formed   *)
(* stream, however their text is cut into fragments.                       *)
C10_CompletionEqualsStream ==
    (/\ adapter = "anthropic" /\ pc = "returned"
     /\ vendor_reply.connected /\ vendor_reply.status = 200)
        => LET content == Get(vendor_reply.res.content, 1, <<>>) IN
           /\ result.kind = "string"
           /\ result.text = Join([i \in 1..Len(content) |-> BlockText(content[i])])
           /\ \A k \in 0..MaxCut, inline \in BOOLEAN :
                 Join(Anthropic_stream_fragments(PyNone, AsStream(content, k, inline)))
                     = result.text

C10_Witness ==
    /\ adapter = "anthropic" /\ pc = "returned"
    /\ vendor_reply.connected /\ vendor_reply.status = 200
    /\ vendor_reply.res.content = Some(<<Block("thinking", Some("r")), Block("text", Some("t"))>>)
    /\ result = StringResult("<think>r</think>t")

----------------------------------------------------------------------------
(* The payload specification: Anthropic's pipe on requests whose body      *)
(* carries any of the sampling options, for either model variant and       *)
(* several thinking budgets.                                               *)

Entry(k, v) == IF v = Absent THEN <<>> ELSE (k :> v[1])

Optional(S) == {Absent} \cup { Some(x) : x \in S }

Budgets == { 0, 1024, 16000 }

Bodies ==
    { Entry("max_tokens", mt) @@ Entry("temperature", t) @@ Entry("top_k", tk)
        @@ Entry("top_p", tp) @@ Entry("stream", st) @@ internal :
        mt \in Optional({1024, 16000, 16001, 64000}),
        t  \in Optional({2}),
        tk \in Optional({5}),
        tp \in Optional({5}),
        st \in Optional({TRUE}),
        internal \in { <<>>, [user |-> "u", chat_id |-> "c", title |-> "t"] } }

PayloadRequests ==
    { Request(model, TextMessages, body) :
        model \in { THINK_MODEL, "claude-3-5-haiku-20241022" }, body \in Bodies }

InitPayload == adapter = "anthropic" /\ THINKING_BUDGET \in Budgets /\ InitRequest

NextPayload == Pipe(PayloadRequests, PlainReplies(adapter))

SpecPayload == InitPayload /\ [][NextPayload]_vars

(* C7: the payload built for the think model has temperature 1.0, no       *)
(* top_k and no top_p, and max_tokens above thinking.budget_tokens,        *)
(* whatever the body carries and whatever the budget is.                   *)
C7_ThinkingPayload ==
    (adapter = "anthropic" /\ payload # Absent /\ request.model_id = THINK_MODEL)
        => LET p == payload[1] IN
           /\ p.temperature = 10
           /\ "top_k" \notin DOMAIN p
           /\ "top_p" \notin DOMAIN p
           /\ "thinking" \in DOMAIN p
           /\ p.thinking.budget_tokens = THINKING_BUDGET
           /\ p.max_tokens > p.thinking.budget_tokens

C7_Witness ==
    /\ adapter = "anthropic" /\ payload # Absent /\ request.model_id = THINK_MODEL
    /\ {"max_tokens", "temperature", "top_k", "top_p"} \subseteq DOMAIN request.body
    /\ request.body.max_tokens = THINKING_BUDGET
    /\ payload[1].max_tokens = THINKING_BUDGET + 1000
    /\ payload[1].temperature = 10

----------------------------------------------------------------------------
(* The image specification: the host composes the messages of a request    *)
(* (a message with string content, or one with a list of parts: an         *)
(* optional leading text part, then images) and calls Anthropic's pipe on  *)
(* it, not streaming, so that a request that passes validation is sent.    *)

MaxMessages == 2
MaxImageParts == 7

BigImage == DataImage(80000000)     \* estimated at 60 MB: two exceed the limit

RECURSIVE ImageCount(_)
ImageCount(msgs) ==
    IF msgs = <<>> THEN 0
    ELSE Cardinality({ i \in 1..Len(Head(msgs).content.parts) :
                          Head(msgs).content.parts[i].type = "image_url" })
         + ImageCount(Tail(msgs))

HostStartsMessage ==
    /\ pc = "idle" /\ Len(request.messages) < MaxMessages
    /\ \E content \in { StrContent, ListContent(<<>>), ListContent(<<TextPart>>) } :
          request' = [request EXCEPT !.messages = Append(@, Message("user", content))]
    /\ UNCHANGED <<adapter, pc, THINKING_BUDGET, payload, network, result, conn,
                   current_block_type, out, held, fault, vendorVars, vendor_reply>>
    /\ UNCHANGED catalogVars

HostAttachesImage ==
    /\ pc = "idle" /\ request.messages # <<>>
    /\ request.messages[Len(request.messages)].content.list
    /\ ImageCount(request.messages) < MaxImageParts
    /\ \E img \in { UrlImage, BigImage } :
          request' = [request EXCEPT
                         !.messages[Len(request.messages)].content.parts = Append(@, img)]
    /\ UNCHANGED <<adapter, pc, THINKING_BUDGET, payload, network, result, conn,
                   current_block_type, out, held, fault, vendorVars, vendor_reply>>
    /\ UNCHANGED catalogVars

InitImages ==
    /\ adapter = "anthropic" /\ THINKING_BUDGET = DEFAULT_THINKING_BUDGET
    /\ pc = "idle"
    /\ request = Request("claude-3-5-sonnet-20241022", <<>>, [stream |-> FALSE])
    /\ payload = Absent
    /\ network = 0
    /\ result = NoResult
    /\ conn = "none"
    /\ current_block_type = PyNone
    /\ out = <<>>
    /\ held = FALSE
    /\ fault = "none"
    /\ vblock = PyNone
    /\ blocks = <<>>
    /\ nevents = 0
    /\ nbad = 0
    /\ stopped = FALSE
    /\ vendor_reply = NoReply
    /\ InitCatalogVars

NextImages ==
    \/ HostStartsMessage
    \/ HostAttachesImage
    \/ Pipe({request}, { Reply(TRUE, 200, "", [content |-> Some(<<Block("text", Some("t"))>>)]) })

SpecImages == InitImages /\ [][NextImages]_vars

TooManyImages == "Error: Maximum of 5 images per API call exceeded"

(* C8: a request whose messages carry 6 or more images, counted across     *)
(* all of them, ends in a validation error returned as an "Error: "        *)
(* string with no payload built and no network call made; a request with   *)
(* 5 or fewer is never turned down for the number of its images.           *)
C8_AtMostFiveImages ==
    (adapter = "anthropic" /\ pc # "idle") =>
        /\ ImageCount(request.messages) >= 6 =>
              /\ fault = "validation" /\ network = 0 /\ payload = Absent
              /\ result.kind = "string" /\ IsErrorString(result.text)
        /\ ImageCount(request.messages) <= 5 => result # StringResult(TooManyImages)

C8_Witness ==
    /\ adapter = "anthropic" /\ pc = "returned"
    /\ Len(request.messages) = 2
    /\ ImageCount(<<request.messages[1]>>) = 3
    /\ ImageCount(<<request.messages[2]>>) = 3
    /\ result = StringResult(TooManyImages)
    /\ network = 0

----------------------------------------------------------------------------
(* The host-body specification: pipe of any adapter on bodies that carry   *)
(* any subset of the fields the host adds for its own use, streaming or    *)
(* not.                                                                    *)

HostFields == [user |-> "u", chat_id |-> "c", title |-> "t"]

HostBodies ==
    { Entry("stream", st) @@ Entry("max_tokens", mt)
        @@ [k \in ks |-> HostFields[k]] :
        st \in Optional(BOOLEAN), mt \in Optional({1024}),
        ks \in SUBSET HostInternalKeys }

ModelOf(a) ==
    CASE a = "anthropic"  -> "claude-3-5-sonnet-20241022"
      [] a = "fireworks"  -> "deepseek-r1"
      [] a = "openrouter" -> "openai/gpt-4o"

HostBodyRequests(a) == { Request(ModelOf(a), TextMessages, body) : body \in HostBodies }

NextHostBody == Pipe(HostBodyRequests(adapter), PlainReplies(adapter))

SpecHostBody == InitStream /\ [][NextHostBody]_vars

(* C11: whatever keys the host body carries, the payload an adapter sends  *)
(* to the vendor has none of the host-internal fields user, chat_id and    *)
(* title.                                                                  *)
C11_NoHostFieldsInPayload ==
    payload # Absent => DOMAIN payload[1] \cap HostInternalKeys = {}

C11_Witness ==
    /\ adapter = "openrouter" /\ pc = "returned" /\ network = 1
    /\ HostInternalKeys \subseteq DOMAIN request.body
    /\ payload # Absent
    /\ DOMAIN payload[1] \cap HostInternalKeys = {}
    /\ payload[1].max_tokens = 1024

----------------------------------------------------------------------------
(* Reasoning markers in the fragments of a stream.                         *)

(* fs, read with a reasoning segment open or not, never opens a segment    *)
(* inside one and never closes one that is not open.                       *)
RECURSIVE MarkersNested(_, _)
MarkersNested(open, fs) ==
    IF fs = <<>> THEN TRUE
    ELSE IF Head(fs) = "<think>" THEN ~open /\ MarkersNested(TRUE, Tail(fs))
    ELSE IF Head(fs) = "</think>" THEN open /\ MarkersNested(FALSE, Tail(fs))
    ELSE MarkersNested(open, Tail(fs))

(* Whether a reasoning segment is open at the end of fs.                   *)
RECURSIVE SegmentOpen(_, _)
SegmentOpen(open, fs) ==
    IF fs = <<>> THEN open
    ELSE IF Head(fs) = "<think>" THEN SegmentOpen(TRUE, Tail(fs))
    ELSE IF Head(fs) = "</think>" THEN SegmentOpen(FALSE, Tail(fs))
    ELSE SegmentOpen(open, Tail(fs))

(* C12: the reasoning markers the Anthropic normalizer emits are balanced: *)
(* no "<think>" inside an open segment, no "</think>" without an open one, *)
(* and no segment left open when the produced sequence has ended.          *)
C12_MarkersBalanced ==
    adapter = "anthropic" =>
        /\ MarkersNested(FALSE, out)
        /\ pc = "done" => ~SegmentOpen(FALSE, out)

----------------------------------------------------------------------------
(* The concurrent catalog specification: host threads call                 *)
(* fetch_openrouter_models on one Pipe at once.  The method takes no lock; *)
(* the interpreter may switch threads between any two of its statements,   *)
(* and does while a thread waits for the network.                          *)

MaxFetches == 3

(* Line 55: current_time = time.time().                                    *)
ThreadCalls(t) ==
    /\ threads[t].at = "idle"
    /\ threads' = [threads EXCEPT ![t] = ThreadState("check", now, <<>>, 0)]
    /\ UNCHANGED <<models_cache, last_fetch_time, now, call, last_success, written,
                   requestVars>>

(* Lines 58-59: return the cache if it is valid, else go on to fetch.      *)
ThreadChecksCache(t) ==
    /\ threads[t].at = "check"
    /\ IF CacheValid(models_cache, last_fetch_time, threads[t].current_time)
       THEN /\ threads' = [threads EXCEPT ![t] = ThreadIdle]
            /\ written' = written
       ELSE /\ written.fetches < MaxFetches
            /\ threads' = [threads EXCEPT ![t].at = "fetch",
                                          ![t].fetch = written.fetches + 1]
            /\ written' = [written EXCEPT !.fetches = @ + 1]
    /\ UNCHANGED <<models_cache, last_fetch_time, now, call, last_success, requestVars>>

(* Lines 61-86 and 94-104: the request and the transformation of its       *)
(* answer; a failure returns without writing anything.                     *)
ThreadFetches(t) ==
    /\ threads[t].at = "fetch"
    /\ \E answer \in CatalogAnswers :
          IF ~answer.connected \/ answer.status # 200 \/ ~process_models(answer.res).ok
          THEN threads' = [threads EXCEPT ![t] = ThreadIdle]
          ELSE threads' = [threads EXCEPT
                              ![t].at = "update",
                              ![t].processed_models = process_models(answer.res).value]
    /\ UNCHANGED <<models_cache, last_fetch_time, now, call, last_success, written,
                   requestVars>>

(* Line 89: self._models_cache = processed_models.                         *)
ThreadWritesCache(t) ==
    /\ threads[t].at = "update"
    /\ models_cache' = Some(threads[t].processed_models)
    /\ written' = [written EXCEPT !.cache = threads[t].fetch]
    /\ threads' = [threads EXCEPT ![t].at = "stamp"]
    /\ UNCHANGED <<last_fetch_time, now, call, last_success, requestVars>>

(* Lines 90-92: self._last_fetch_time = current_time, and return.          *)
ThreadWritesTime(t) ==
    /\ threads[t].at = "stamp"
    /\ last_fetch_time' = threads[t].current_time
    /\ written' = [written EXCEPT !.time = threads[t].fetch]
    /\ threads' = [threads EXCEPT ![t] = ThreadIdle]
    /\ UNCHANGED <<models_cache, now, call, last_success, requestVars>>

NextConcurrent ==
    \/ \E t \in Threads : ThreadCalls(t)
    \/ \E t \in Threads : ThreadChecksCache(t)
    \/ \E t \in Threads : ThreadFetches(t)
    \/ \E t \in Threads : ThreadWritesCache(t)
    \/ \E t \in Threads : ThreadWritesTime(t)
    \/ Tick

SpecConcurrent == InitCatalog /\ [][NextConcurrent]_vars

MidUpdate(t) == threads[t].at \in {"update", "stamp"}

(* C13: under concurrent calls, whenever no refresh is in the middle of    *)
(* its update, the cached list and the recorded fetch time were written    *)
(* by the same successful fetch.                                           *)
C13_CacheAndTimestampFromSameFetch ==
    (\A t \in Threads : ~MidUpdate(t)) => written.cache = written.time

====
